---- MODULE Spec2Model ----
(***************************************************************************)
(* Model of the Ethereum transaction history tracker:                      *)
(*   - the chunked polling engine of utils/transaction_poller.py           *)
(*     (TransactionPoller and CSVPersistor) with the provider behaviour of *)
(*     api_connectors/etherscan_connector.py;                              *)
(*   - the normalizer of utils/transaction_parser.py;                      *)
(*   - run and process_transactions of ethereum_transaction_tracker.py.    *)
(*                                                                         *)
(* Spec models one TransactionPoller: poll_transactions may be called on   *)
(* it again and again; every call draws its epoch range and the prior      *)
(* content of its destination afresh.  SpecPlanner, SpecSink, SpecParser,  *)
(* SpecFetch and SpecTracker run the chunk planner, the persistor, the     *)
(* normalizers, one chunk's fetches and the tracker's run on their own.    *)
(* SpecSort sorts and writes one chunk's batch in a drawn time zone,       *)
(* SpecConcurrent interleaves two append_transactions calls on one         *)
(* destination, and SpecPlannerLoop follows the planner's while loop turn  *)
(* by turn, under weak fairness, for every duration the constructor takes. *)
(***************************************************************************)
EXTENDS Integers, Sequences, FiniteSets, TLC

(* ------------------------------ bounds -------------------------------- *)

\* Epoch arguments are multiples of EpochStep seconds, 0 .. MaxEpochSteps steps.
EpochStep == 30
MaxEpochSteps == 5
\* chunk_duration_minutes given to the constructor ranges over 1 .. MaxChunkMinutes.
MaxChunkMinutes == 2

\* The same two bounds for the specification that runs the planner alone.
PlannerMaxEpochSteps == 8
PlannerMaxChunkMinutes == 3

Epochs == {k * EpochStep : k \in 0..MaxEpochSteps}
PlannerEpochs == {k * EpochStep : k \in 0..PlannerMaxEpochSteps}

(* ------------------------- program constants -------------------------- *)

\* chunk_duration_minutes * 60
SecondsPerMinute == 60
\* None, for the fields that hold a time
NoTime == -1
\* The five category fetches, in the order _fetch_transactions_for_chunk makes them.
Categories == <<"normal", "internal", "erc20", "erc721", "erc1155">>
NumCategories == Len(Categories)

(* ------------------------------ helpers -------------------------------- *)

Max(a, b) == IF a >= b THEN a ELSE b

RECURSIVE Reverse(_)
Reverse(s) == IF s = <<>> THEN <<>> ELSE Reverse(Tail(s)) \o <<Head(s)>>

(* --------------------------- the chunk planner ------------------------- *)

\* The while loop of _get_chunk_boundaries: the chunks in the order they are
\* appended, walking back from current_end until start_epoch is reached.
RECURSIVE CarveBack(_, _, _)
CarveBack(start, current_end, duration) ==
    IF current_end > start
    THEN LET current_start == Max(start, current_end - duration)
         IN  <<(<<current_start, current_end>>)>> \o CarveBack(start, current_start, duration)
    ELSE <<>>

\* Mutant: the window start is not clamped to start_epoch.
RECURSIVE CarveBackUnclamped(_, _, _)
CarveBackUnclamped(start, current_end, duration) ==
    IF current_end > start
    THEN LET current_start == current_end - duration
         IN  <<(<<current_start, current_end>>)>> \o CarveBackUnclamped(start, current_start, duration)
    ELSE <<>>

\* Mutant: the range is carved front to back, so the remainder is the last chunk.
RECURSIVE CarveForward(_, _, _)
CarveForward(current_start, end, duration) ==
    IF current_start < end
    THEN LET current_end == IF current_start + duration <= end THEN current_start + duration ELSE end
         IN  <<(<<current_start, current_end>>)>> \o CarveForward(current_end, end, duration)
    ELSE <<>>

_get_chunk_boundaries_unclamped(start, end, duration) ==
    Reverse(CarveBackUnclamped(start, end, duration))

_get_chunk_boundaries_forward(start, end, duration) ==
    CarveForward(start, end, duration)

\* Mutant: a loop that runs its body once before testing, so that equal bounds
\* give one chunk of zero width.
_get_chunk_boundaries_do_while(start, end, duration) ==
    IF start = end THEN <<(<<start, end>>)>> ELSE Reverse(CarveBack(start, end, duration))

_get_chunk_boundaries(start, end, duration) ==
    Reverse(CarveBack(start, end, duration))

(* ----------------------------- raw records ----------------------------- *)

\* A field of a raw record that the code hands to int(): a decimal integer
\* text (n is its value), a text int() rejects, an absent key, or (for
\* timeStamp) an integer text beyond the platform's time_t.
Numeric(n) == [kind |-> "numeric", n |-> n]
Text == [kind |-> "text", n |-> 0]
Missing == [kind |-> "missing", n |-> 0]
Huge == [kind |-> "huge", n |-> 0]

\* self.uniswap_addresses
\* (UniswapV2RouterChecksum is the first key as providers print it, mixed case)
UniswapV2Router == "0x7a250d5630b4cf539739df2c5dacb4c659f2488d"
UniswapV2RouterChecksum == "0x7a250d5630B4cF539739dF2C5dAcb4c659F2488D"
uniswap_addresses ==
    { UniswapV2Router,
      "0xe592427a0aece92de3edee1f18e0157c05861564",
      "0x1f9840a85d5af5bf1d1762f925bdaddc4201f984" }

\* The 'to' values of the modelled records: absent or empty (a contract
\* creation), the V2 router in both spellings, some other 0x address, and a
\* text without the 0x prefix.
OtherAddress == "0x00000000000000000000000000000000000000aa"
ToValues == {"", UniswapV2Router, UniswapV2RouterChecksum, OtherAddress, "a39b189482f984388a34"}
\* tx['to'].startswith('0x')
StartsWith0x(address) == address \in {UniswapV2Router, UniswapV2RouterChecksum, OtherAddress}
\* str.lower()
Lower(address) == IF address = UniswapV2RouterChecksum THEN UniswapV2Router ELSE address

\* The if/elif chain on input_data.startswith(...): call-data is modelled by
\* its leading 4-byte signature.
SignatureTypes ==
    [sig \in {"0xa9059cbb", "0x23b872dd", "0x42842e0e", "0xf242432a", "0x38ed1739",
              "0x7ff36ab5", "0x18cbafe5", "0x4a25d94a", "0x5c11d795", "0x414bf389"} |->
        CASE sig \in {"0xa9059cbb", "0x23b872dd"} -> "ERC-20 Transfer"
          [] sig = "0x42842e0e" -> "ERC-721 Transfer"
          [] sig = "0xf242432a" -> "ERC-1155 Transfer"
          [] OTHER -> "Uniswap Trade"]
\* The 'input' values of the modelled records: absent or empty, '0x', the
\* listed signatures, an unlisted signature, and the word Etherscan puts in
\* the input field of token transfer records.
InputValues == {"", "0x", "0x12345678", "deprecated"} \cup DOMAIN SignatureTypes

\* The raw records normalization is checked on.
RawRecords ==
    [ hash : {1},
      from : {OtherAddress},
      to : ToValues,
      input : InputValues,
      timeStamp : {Numeric(EpochStep), Text, Missing, Huge},
      value : {Numeric(1500000), Text, Missing},
      tokenDecimal : {Numeric(6), Text, Missing},
      gasUsed : {Numeric(21000), Missing},
      isError : {"1", "missing"},
      category : {"normal", "internal", "erc20", "erc721", "erc1155"} ]

(* ------------------------- the provider's data ------------------------- *)

\* The raw records the provider holds for the polled address, newest first
\* (the requests ask for 'sort': 'desc').
Chain ==
    << [hash |-> 3, from |-> OtherAddress, to |-> OtherAddress, input |-> "deprecated",
        timeStamp |-> Numeric(3 * EpochStep), value |-> Numeric(1500000),
        tokenDecimal |-> Numeric(6), gasUsed |-> Numeric(21000), isError |-> "missing",
        category |-> "erc20"],
       [hash |-> 2, from |-> OtherAddress, to |-> OtherAddress, input |-> "",
        timeStamp |-> Numeric(3 * EpochStep), value |-> Numeric(1500000),
        tokenDecimal |-> Missing, gasUsed |-> Numeric(21000), isError |-> "0",
        category |-> "internal"],
       [hash |-> 1, from |-> OtherAddress, to |-> OtherAddress, input |-> "0x",
        timeStamp |-> Numeric(2 * EpochStep), value |-> Numeric(1500000),
        tokenDecimal |-> Missing, gasUsed |-> Numeric(21000), isError |-> "0",
        category |-> "normal"] >>

\* data['result'] of a status '1' answer for one category.
ProviderResult(category) ==
    SelectSeq(Chain, LAMBDA tx : tx.category = category)

\* The timestamp filter of the get_* methods (the provider's records carry
\* integer timestamps).  0 is falsy in Python: a bound of 0 does not filter.
FilterByEpoch(transactions, start_epoch_arg, end_epoch_arg) ==
    SelectSeq(transactions, LAMBDA tx :
        /\ ~(start_epoch_arg # 0 /\ tx.timeStamp.n < start_epoch_arg)
        /\ ~(end_epoch_arg # 0 /\ tx.timeStamp.n > end_epoch_arg))

\* What _make_request can do, seen from a get_* method: status '1'; status '0'
\* with a 'No transactions found' message; status '0' with another message;
\* a RequestException (caught in _make_request and turned into status '0');
\* an answer the method cannot handle (e.g. no 'status' key), which raises;
\* a KeyboardInterrupt while the request is in flight.
RequestOutcomes ==
    {"ok", "no_records", "status_error", "network_error", "exception", "interrupt"}
ProviderErrors == {"no_records", "status_error", "network_error"}
\* get_block_number_by_timestamp: the provider's answer, or the estimate
\* timestamp // 12 after a failed lookup (a warning is logged).
LookupOutcomes == {"ok", "estimated"}

\* The list a get_* method returns when it returns.
FetchResult(category, request, chunk_start, chunk_end) ==
    IF request = "ok"
    THEN FilterByEpoch(ProviderResult(category), chunk_start, chunk_end)
    ELSE <<>>

(* ----------------------------- the parser ------------------------------ *)

\* int(decimals) default of parse_transaction and of _format_value
DefaultDecimals == 18
\* digits after the point in f"{value_decimal:.6f}"
FractionDigits == 6
\* The largest power of ten the model computes; raw amounts stay below
\* 5 * 10^MaxPower, so a larger divisor rounds them to 0.
MaxPower == 9

RECURSIVE Pow10(_)
Pow10(k) == IF k = 0 THEN 1 ELSE 10 * Pow10(k - 1)

\* value_int / (10 ** decimals) in millionths, rounded as .6f rounds.
Micro(value_int, decimals) ==
    IF decimals <= FractionDigits
    THEN value_int * Pow10(FractionDigits - decimals)
    ELSE IF decimals - FractionDigits > MaxPower THEN 0
    ELSE (2 * value_int + Pow10(decimals - FractionDigits))
             \div (2 * Pow10(decimals - FractionDigits))

\* The texts _format_value returns: '0'; six fraction digits (micro
\* millionths); the value as it came.
Zero == [kind |-> "zero", micro |-> 0]
Fixed6(micro) == [kind |-> "fixed6", micro |-> micro]
Unformatted == [kind |-> "unformatted", micro |-> 0]

\* _format_value(value, decimals); ValueError and TypeError give the value back.
_format_value(value, decimals) ==
    IF value.kind = "numeric"
    THEN IF value.n = 0 THEN Zero ELSE Fixed6(Micro(value.n, decimals))
    ELSE Unformatted

\* tx.get(key, '0') for value and gasUsed
OrZero(field) == IF field.kind = "missing" THEN Numeric(0) ELSE field

\* The text strftime('%Y-%m-%d %H:%M:%S') makes of epoch n.
Formatted(n) == [kind |-> "formatted", n |-> n]

\* The time zone of the process, which datetime.fromtimestamp reads.
VARIABLE tz

\* A zone whose clocks never change, and a zone with daylight saving time
\* whose clocks are set back by DstShift seconds at the epoch DstEnd.
Utc == "utc"
Dst == "dst"
Zones == {Utc, Dst}
DstShift == 3600
DstEnd == 3 * EpochStep

\* The local wall-clock reading of an epoch in a zone, in seconds on the
\* zone's standard-time scale: what strftime('%Y-%m-%d %H:%M:%S') prints.
WallClock(zone, epoch) ==
    IF zone = Dst /\ epoch < DstEnd THEN epoch + DstShift ELSE epoch

\* Mutant: a timestamp that cannot be converted is reported as a failure.
_timestamp_to_datetime_strict(timestamp) ==
    IF timestamp.kind = "numeric"
    THEN [raises |-> "none", value |-> Formatted(WallClock(tz, timestamp.n))]
    ELSE [raises |-> "Exception", value |-> timestamp]

\* _timestamp_to_datetime: the formatted local time; the timestamp itself
\* when int() or fromtimestamp() raises ValueError or TypeError; an
\* OverflowError of fromtimestamp() is not caught here.
_timestamp_to_datetime(timestamp) ==
    IF timestamp.kind = "numeric"
    THEN [raises |-> "none", value |-> Formatted(WallClock(tz, timestamp.n))]
    ELSE IF timestamp.kind = "huge"
    THEN [raises |-> "OverflowError", value |-> timestamp]
    ELSE [raises |-> "none", value |-> timestamp]

\* _parse_transaction_type
_parse_transaction_type(tx, internal) ==
    IF internal THEN "Internal Transfer"
    ELSE IF tx.to # "" /\ StartsWith0x(tx.to)
    THEN IF Lower(tx.to) \in uniswap_addresses THEN "Uniswap Trade"
         ELSE IF tx.input # "" /\ tx.input # "0x"
         THEN IF tx.input \in DOMAIN SignatureTypes
              THEN SignatureTypes[tx.input]
              ELSE "Contract Interaction"
         ELSE "ETH Transfer"
    ELSE "ETH Transfer"

\* tx.get('isError', '0')
IsErrorOf(tx) == IF tx.isError = "missing" THEN "0" ELSE tx.isError

\* The record of the except branch of parse_transaction.
ErrorRecord(tx, date_time) ==
    [transaction_hash |-> tx.hash, date_time |-> date_time,
     from_address |-> tx.from, to_address |-> tx.to,
     transaction_type |-> "ERROR", value_amount |-> Zero, gas_fee_eth |-> Zero,
     is_error |-> "1"]

\* What a call hands back when it raises instead of returning a record.
NoRecord ==
    [transaction_hash |-> 0, date_time |-> Missing, from_address |-> "", to_address |-> "",
     transaction_type |-> "", value_amount |-> Zero, gas_fee_eth |-> Zero, is_error |-> ""]

\* The try block of parse_transaction: int(tx.get('tokenDecimal', 18)) raises
\* ValueError on a text; _timestamp_to_datetime may raise.
TryParse(tx, internal) ==
    LET stamp == _timestamp_to_datetime(tx.timeStamp)
        decimals == IF tx.tokenDecimal.kind = "missing" THEN DefaultDecimals
                    ELSE tx.tokenDecimal.n
    IN  IF tx.tokenDecimal.kind = "text" THEN [raises |-> "ValueError", record |-> NoRecord]
        ELSE IF stamp.raises # "none" THEN [raises |-> stamp.raises, record |-> NoRecord]
        ELSE [raises |-> "none",
              record |-> [transaction_hash |-> tx.hash, date_time |-> stamp.value,
                          from_address |-> tx.from, to_address |-> tx.to,
                          transaction_type |-> _parse_transaction_type(tx, internal),
                          value_amount |-> _format_value(OrZero(tx.value), decimals),
                          gas_fee_eth |-> _format_value(OrZero(tx.gasUsed), DefaultDecimals),
                          is_error |-> IsErrorOf(tx)]]

\* parse_transaction with its except branch, which calls
\* _timestamp_to_datetime again, outside any try.
ParseOutcome(tx, internal) ==
    LET attempt == TryParse(tx, internal)
        stamp == _timestamp_to_datetime(tx.timeStamp)
    IN  IF attempt.raises = "none" THEN attempt
        ELSE IF stamp.raises # "none" THEN [raises |-> stamp.raises, record |-> NoRecord]
        ELSE [raises |-> "none", record |-> ErrorRecord(tx, stamp.value)]

\* parse_transaction, when it returns.
parse_transaction(tx, internal) == ParseOutcome(tx, internal).record

\* The parsing loop over one category's list: the records appended, or the
\* exception of the first record whose parse_transaction raises.
RECURSIVE ParseAll(_, _)
ParseAll(txs, internal) ==
    IF txs = <<>> THEN [raises |-> "none", records |-> <<>>]
    ELSE LET first == ParseOutcome(Head(txs), internal)
             rest == ParseAll(Tail(txs), internal)
         IN  IF first.raises # "none" THEN [raises |-> first.raises, records |-> <<>>]
             ELSE IF rest.raises # "none" THEN rest
             ELSE [raises |-> "none", records |-> <<first.record>> \o rest.records]

\* The transaction_type process_transactions passes for each category.
CategoryType(category) ==
    CASE category = "normal" -> "ETH Transfer"
      [] category = "internal" -> "Internal Transfer"
      [] category = "erc20" -> "ERC-20 Transfer"
      [] category = "erc721" -> "ERC-721 Transfer"
      [] category = "erc1155" -> "ERC-1155 Transfer"

\* One turn of the loop of the tracker's _process_transaction_batch, with
\* _create_transaction_dict: nothing in it catches an exception.
ProcessOutcome(tx, tx_type) ==
    LET stamp == _timestamp_to_datetime(tx.timeStamp)
        reads_decimals == tx_type \in {"ERC-20 Transfer", "ERC-1155 Transfer"}
        decimals == IF reads_decimals /\ tx.tokenDecimal.kind = "numeric"
                    THEN tx.tokenDecimal.n ELSE DefaultDecimals
        value == IF tx_type = "ERC-721 Transfer" THEN Numeric(1) ELSE OrZero(tx.value)
    IN  IF reads_decimals /\ tx.tokenDecimal.kind = "text"
        THEN [raises |-> "ValueError", record |-> NoRecord]
        ELSE IF stamp.raises # "none" THEN [raises |-> stamp.raises, record |-> NoRecord]
        ELSE [raises |-> "none",
              record |-> [transaction_hash |-> tx.hash, date_time |-> stamp.value,
                          from_address |-> tx.from, to_address |-> tx.to,
                          transaction_type |-> tx_type,
                          value_amount |-> _format_value(value, decimals),
                          gas_fee_eth |-> IF tx_type = "Internal Transfer" THEN Zero
                                          ELSE _format_value(OrZero(tx.gasUsed), DefaultDecimals),
                          is_error |-> IsErrorOf(tx)]]

\* The order of two date_time texts as Python compares strings: '' is below
\* everything, a formatted time (it starts with a digit) is below a text.
DateGeq(a, b) ==
    IF a.kind = "formatted" /\ b.kind = "formatted" THEN a.n >= b.n
    ELSE IF a.kind = b.kind THEN TRUE
    ELSE IF a.kind = "missing" THEN FALSE
    ELSE IF b.kind = "missing" THEN TRUE
    ELSE a.kind = "text"

\* list.sort(key=date_time, reverse=True): stable, descending.
RECURSIVE InsertDesc(_, _)
InsertDesc(sorted, rec) ==
    IF sorted = <<>> THEN <<rec>>
    ELSE IF DateGeq(Head(sorted).date_time, rec.date_time)
         THEN <<Head(sorted)>> \o InsertDesc(Tail(sorted), rec)
         ELSE <<rec>> \o sorted

RECURSIVE SortDesc(_)
SortDesc(batch) ==
    IF batch = <<>> THEN <<>>
    ELSE InsertDesc(SortDesc(SubSeq(batch, 1, Len(batch) - 1)), batch[Len(batch)])

(* ---------------------------- the destination -------------------------- *)

\* column_order after rename(columns=column_mapping): the header line.
Header ==
    << "Transaction Hash", "Date & Time", "From Address", "To Address",
       "Transaction Type", "Asset Contract Address", "Asset Symbol / Name",
       "Token ID", "Value / Amount", "Gas Fee (ETH)" >>

\* df[column_order] for one record: the cells of its line in the file (the
\* three asset columns are not modelled; is_error is not a column).
ToRow(rec) ==
    [transaction_hash |-> rec.transaction_hash, date_time |-> rec.date_time,
     from_address |-> rec.from_address, to_address |-> rec.to_address,
     transaction_type |-> rec.transaction_type, value_amount |-> rec.value_amount,
     gas_fee_eth |-> rec.gas_fee_eth]

ToRows(transactions) == [k \in 1..Len(transactions) |-> ToRow(transactions[k])]

Absent == [exists |-> FALSE, header |-> <<>>, rows |-> <<>>]
\* A destination left by an earlier run before this one.
StaleRow ==
    [transaction_hash |-> 0, date_time |-> Formatted(0), from_address |-> OtherAddress,
     to_address |-> OtherAddress, transaction_type |-> "ETH Transfer",
     value_amount |-> Zero, gas_fee_eth |-> Zero]
Stale == [exists |-> TRUE, header |-> Header, rows |-> <<StaleRow>>]

\* The dtype pd.read_csv infers for a column of amounts: text as soon as one
\* cell is no number, int64 when every cell is '0', float64 otherwise.
ColumnDtype(rows, column) ==
    IF \E k \in 1..Len(rows) : rows[k][column].kind = "unformatted" THEN "object"
    ELSE IF \A k \in 1..Len(rows) : rows[k][column].kind = "zero" THEN "int64"
    ELSE "float64"

\* What to_csv writes for the float micro / 10^6: repr() gives the digits of
\* '.6f' only when the sixth fraction digit is not 0 and no exponent is used.
FloatText(micro) ==
    IF micro % 10 # 0 /\ micro >= 100 THEN Fixed6(micro)
    ELSE [kind |-> "repr", micro |-> micro]

\* A cell after pd.read_csv and to_csv.
RewrittenCell(cell, dtype) ==
    IF dtype = "float64" THEN FloatText(cell.micro) ELSE cell

\* Mutant: the existing lines are carried over as text.
RewrittenRowsVerbatim(rows) == rows

\* The existing lines after pd.read_csv, pd.concat and to_csv.
RewrittenRows(rows) ==
    [k \in 1..Len(rows) |->
        [rows[k] EXCEPT
            !.value_amount = RewrittenCell(@, ColumnDtype(rows, "value_amount")),
            !.gas_fee_eth = RewrittenCell(@, ColumnDtype(rows, "gas_fee_eth"))]]

\* CSVPersistor.persist_transactions with a non-empty batch: the file is
\* (over)written with the header and the batch.
persist_transactions(transactions) ==
    [exists |-> TRUE, header |-> Header, rows |-> ToRows(transactions)]

\* Mutant: the new rows are written in append mode without a header line, so
\* a destination that did not exist gets rows and no header.
append_transactions_headerless(existing, transactions) ==
    IF existing.exists /\ existing.rows # <<>>
    THEN [exists |-> TRUE, header |-> existing.header,
          rows |-> RewrittenRows(existing.rows) \o ToRows(transactions)]
    ELSE [exists |-> TRUE, header |-> <<>>, rows |-> ToRows(transactions)]

\* CSVPersistor.append_transactions with a non-empty batch, once the existing
\* file (if any) has been read: existing rows first, then the new ones.
append_transactions(existing, transactions) ==
    IF existing.exists /\ existing.rows # <<>>
    THEN [exists |-> TRUE, header |-> existing.header,
          rows |-> RewrittenRows(existing.rows) \o ToRows(transactions)]
    ELSE [exists |-> TRUE, header |-> Header, rows |-> ToRows(transactions)]

(* ------------------------------- state --------------------------------- *)

VARIABLES
    chunk_duration_seconds,   \* self.chunk_duration_seconds
    total_transactions,       \* self.total_transactions
    total_chunks_processed,   \* self.total_chunks_processed
    start_time,               \* self.start_time
    last_processed_time,      \* self.last_processed_time (the chunk end it was made from)
    pc,                       \* where the current call stands
    start_epoch,              \* arguments of the current call
    end_epoch,
    chunks,                   \* the planner's result
    i,                        \* the loop's chunk number, from 1
    cat,                      \* the next category to fetch in chunk i, 1..5
    all_transactions,         \* the batch _fetch_transactions_for_chunk is building
    pending,                  \* the exception in flight, if any
    file,                     \* the destination
    writes,                   \* the persistor calls of this call, in order
    last_fetch,               \* the latest category fetch and how it went
    log_progress,             \* the status _log_progress logged in this call
    summaries,                \* how many times _log_final_summary ran in this call
    raw_tx,                   \* the raw record handed to a normalizer
    parsed_tx,                \* what the normalizer did with it
    responses,                \* the lists the category fetches of one chunk returned
    sink_call,                \* the latest CSVPersistor call and its result
    file_before,              \* the destination as that call found it
    address,                  \* arguments of EthereumTransactionTracker.run
    start_arg,
    end_arg,
    run_result,               \* what run returned
    appenders,                \* the append_transactions calls under way on one destination
    current_end               \* current_end of the _get_chunk_boundaries call under way

\* The variables of the poller.
pollvars == <<chunk_duration_seconds, total_transactions, total_chunks_processed,
              start_time, last_processed_time, pc, start_epoch, end_epoch, chunks, i,
              cat, all_transactions, pending, file, writes, last_fetch,
              log_progress, summaries>>
\* The variables of the calls modelled on their own.
callvars == <<raw_tx, parsed_tx, responses, sink_call, file_before, address,
              start_arg, end_arg, run_result>>

vars == <<pollvars, callvars, tz, appenders, current_end>>

\* No append_transactions call of a second process is under way.
NoAppenders == <<>>

\* datetime.now() when poll_transactions starts
Now == 0
NoFetch == [category |-> "none", lookup |-> "none", request |-> "none", returned |-> 0]

\* None of the calls modelled on their own has been made.
NoRaw == [hash |-> 0]
NoOutcome == [raises |-> "none", record |-> NoRecord]
NoSinkCall == [op |-> "none", transactions |-> <<>>, readable |-> TRUE, returns |-> "none"]
NoArgument == "none"
NoCalls ==
    /\ raw_tx = NoRaw
    /\ parsed_tx = NoOutcome
    /\ responses = <<>>
    /\ sink_call = NoSinkCall
    /\ file_before = Absent
    /\ address = NoArgument
    /\ start_arg = NoArgument
    /\ end_arg = NoArgument
    /\ run_result = "none"

\* TransactionPoller.__init__
Init ==
    /\ chunk_duration_seconds \in {m * SecondsPerMinute : m \in 1..MaxChunkMinutes}
    /\ total_transactions = 0
    /\ total_chunks_processed = 0
    /\ start_time = NoTime
    /\ last_processed_time = NoTime
    /\ pc = "idle"
    /\ start_epoch = 0
    /\ end_epoch = 0
    /\ chunks = <<>>
    /\ i = 1
    /\ cat = 1
    /\ all_transactions = <<>>
    /\ pending = "none"
    /\ file = Absent
    /\ writes = <<>>
    /\ last_fetch = NoFetch
    /\ log_progress = "none"
    /\ summaries = 0
    /\ NoCalls
    /\ tz = Utc
    /\ appenders = NoAppenders
    /\ current_end = NoTime

(* ------------------------------ actions -------------------------------- *)

\* The for loop's head with chunk number n: the next chunk's fetches, or the
\* end of the loop.
EnterChunk(n, planned) ==
    /\ i' = n
    /\ cat' = 1
    /\ all_transactions' = <<>>
    /\ pc' = IF n <= Len(planned) THEN "fetch" ELSE "finally"

\* poll_transactions up to the loop: the run state is set, the chunks are planned.
\* The destination named by the call is absent or holds something older.
PollStart ==
    /\ pc \in {"idle", "returned", "raised"}
    /\ \E s \in Epochs, e \in Epochs, f \in {Absent, Stale} :
        /\ start_epoch' = s
        /\ end_epoch' = e
        /\ file' = f
        /\ chunks' = _get_chunk_boundaries(s, e, chunk_duration_seconds)
        /\ EnterChunk(1, _get_chunk_boundaries(s, e, chunk_duration_seconds))
    /\ start_time' = Now
    /\ total_transactions' = 0
    /\ total_chunks_processed' = 0
    /\ pending' = "none"
    /\ writes' = <<>>
    /\ last_fetch' = NoFetch
    /\ log_progress' = "none"
    /\ summaries' = 0
    /\ UNCHANGED <<tz, appenders, current_end, chunk_duration_seconds, last_processed_time>>
    /\ UNCHANGED callvars

\* Mutant: _make_request without its try/except, so a network failure raises.
RaisedByUncaught(request) ==
    IF request \in {"exception", "network_error"} THEN "Exception"
    ELSE IF request = "interrupt" THEN "KeyboardInterrupt"
    ELSE "none"

\* What leaves the connector's get_* method instead of a list: _make_request
\* catches RequestException, the get_* method turns every status other than
\* '1' into an empty list; anything else propagates.
RaisedBy(request) ==
    IF request = "exception" THEN "Exception"
    ELSE IF request = "interrupt" THEN "KeyboardInterrupt"
    ELSE "none"

\* One category fetch of _fetch_transactions_for_chunk with its parsing loop:
\* the connector's get_* method (block lookups, request, timestamp filter),
\* then parse_transaction for every record returned.  Nothing in the method
\* or in the loop around it catches what the connector or the parser raises.
FetchCategory ==
    /\ pc = "fetch"
    /\ \E lookup \in LookupOutcomes, request \in RequestOutcomes :
        LET category == Categories[cat]
            result == FetchResult(category, request, chunks[i][1], chunks[i][2])
            parsed == ParseAll(result, category = "internal")
            raised == IF RaisedBy(request) # "none" THEN RaisedBy(request)
                      ELSE IF parsed.raises # "none" THEN "Exception"
                      ELSE "none"
        IN  /\ last_fetch' = [category |-> category, lookup |-> lookup,
                              request |-> request, returned |-> Len(result)]
            /\ IF raised # "none"
               THEN /\ pc' = "except"
                    /\ pending' = raised
                    /\ UNCHANGED <<cat, all_transactions>>
               ELSE /\ all_transactions' = all_transactions \o parsed.records
                    /\ cat' = IF cat < NumCategories THEN cat + 1 ELSE cat
                    /\ pc' = IF cat < NumCategories THEN "fetch" ELSE "process"
                    /\ UNCHANGED pending
    /\ UNCHANGED <<tz, appenders, current_end, chunk_duration_seconds, total_transactions, total_chunks_processed,
                   start_time, last_processed_time, start_epoch, end_epoch, chunks, i,
                   file, writes, log_progress, summaries>>
    /\ UNCHANGED callvars

\* Mutant: the chunk is counted before its write, so also when the write raises.
WriteBatchCountedFirst ==
    \E outcome \in {"written", "raised", "False"} :
        LET chunk_transactions == SortDesc(all_transactions)
            op == IF i = 1 THEN "persist" ELSE "append"
        IN  /\ outcome = "False" => (op = "append" /\ file.exists)
            /\ writes' = Append(writes, [op |-> op, result |-> outcome])
            /\ file' = IF outcome # "written" THEN file
                       ELSE IF op = "persist"
                            THEN persist_transactions(chunk_transactions)
                            ELSE append_transactions(file, chunk_transactions)
            /\ total_chunks_processed' = i
            /\ IF outcome = "raised"
               THEN /\ pc' = "except"
                    /\ pending' = "Exception"
                    /\ UNCHANGED <<total_transactions, last_processed_time>>
               ELSE /\ total_transactions' = total_transactions + Len(chunk_transactions)
                    /\ last_processed_time' = chunks[i][2]
                    /\ pc' = "sleep"
                    /\ UNCHANGED pending

\* The loop body after the fetches when the batch is not empty: sort, persist
\* (chunk 1) or append (later chunks), count.  The write can fail: to_csv
\* raises, or append_transactions cannot read the existing file and returns
\* False, which poll_transactions does not look at.
WriteBatch ==
    \E outcome \in {"written", "raised", "False"} :
        LET chunk_transactions == SortDesc(all_transactions)
            op == IF i = 1 THEN "persist" ELSE "append"
        IN  /\ outcome = "False" => (op = "append" /\ file.exists)
            /\ writes' = Append(writes, [op |-> op, result |-> outcome])
            /\ file' = IF outcome # "written" THEN file
                       ELSE IF op = "persist"
                            THEN persist_transactions(chunk_transactions)
                            ELSE append_transactions(file, chunk_transactions)
            /\ IF outcome = "raised"
               THEN /\ pc' = "except"
                    /\ pending' = "Exception"
                    /\ UNCHANGED <<total_transactions, total_chunks_processed,
                                   last_processed_time>>
               ELSE /\ total_transactions' = total_transactions + Len(chunk_transactions)
                    /\ total_chunks_processed' = i
                    /\ last_processed_time' = chunks[i][2]
                    /\ pc' = "sleep"
                    /\ UNCHANGED pending

\* Mutant: the persistor is called without the test for an empty batch.
EmptyBatchUnguarded ==
    /\ writes' = Append(writes, [op |-> IF i = 1 THEN "persist" ELSE "append",
                                  result |-> "written"])
    /\ total_chunks_processed' = i
    /\ last_processed_time' = chunks[i][2]
    /\ pc' = "sleep"
    /\ UNCHANGED <<total_transactions, file, pending>>

\* The loop body after the fetches when the batch is empty: no write, the
\* chunk still counts.
EmptyBatch ==
    /\ total_chunks_processed' = i
    /\ last_processed_time' = chunks[i][2]
    /\ pc' = "sleep"
    /\ UNCHANGED <<total_transactions, file, writes, pending>>

\* The rest of the loop body up to the sleep.
ProcessBatch ==
    /\ pc = "process"
    /\ IF all_transactions # <<>> THEN WriteBatch ELSE EmptyBatch
    /\ UNCHANGED <<tz, appenders, current_end, chunk_duration_seconds, start_time, start_epoch, end_epoch, chunks,
                   i, cat, all_transactions, last_fetch, log_progress, summaries>>
    /\ UNCHANGED callvars

\* time.sleep(1) and the step to the next chunk; Ctrl-C can arrive in the sleep.
Sleep ==
    /\ pc = "sleep"
    /\ \/ /\ EnterChunk(i + 1, chunks)
          /\ UNCHANGED pending
       \/ /\ pc' = "except"
          /\ pending' = "KeyboardInterrupt"
          /\ UNCHANGED <<i, cat, all_transactions>>
    /\ UNCHANGED <<tz, appenders, current_end, chunk_duration_seconds, total_transactions, total_chunks_processed,
                   start_time, last_processed_time, start_epoch, end_epoch, chunks,
                   file, writes, last_fetch, log_progress, summaries>>
    /\ UNCHANGED callvars

\* Mutant: the progress lines are logged whatever last_processed_time is.
_log_progress_unguarded(status) ==
    log_progress' = status

\* _log_progress: logs only when a last processed time is there.
_log_progress(status) ==
    log_progress' = IF last_processed_time # NoTime THEN status ELSE log_progress

\* except KeyboardInterrupt: warning, _log_progress("INTERRUPTED"), raise.
ExceptKeyboardInterrupt ==
    /\ pc = "except"
    /\ pending = "KeyboardInterrupt"
    /\ _log_progress("INTERRUPTED")
    /\ pc' = "finally"
    /\ UNCHANGED <<tz, appenders, current_end, chunk_duration_seconds, total_transactions, total_chunks_processed,
                   start_time, last_processed_time, start_epoch, end_epoch, chunks, i,
                   cat, all_transactions, pending, file, writes, last_fetch, summaries>>
    /\ UNCHANGED callvars

\* except Exception: error, _log_progress("ERROR"), raise.
ExceptException ==
    /\ pc = "except"
    /\ pending = "Exception"
    /\ _log_progress("ERROR")
    /\ pc' = "finally"
    /\ UNCHANGED <<tz, appenders, current_end, chunk_duration_seconds, total_transactions, total_chunks_processed,
                   start_time, last_processed_time, start_epoch, end_epoch, chunks, i,
                   cat, all_transactions, pending, file, writes, last_fetch, summaries>>
    /\ UNCHANGED callvars

\* Mutant: the summary is logged after the loop instead of in a finally clause.
FinallyAfterLoopOnly ==
    /\ pc = "finally"
    /\ summaries' = IF pending = "none" THEN summaries + 1 ELSE summaries
    /\ pc' = IF pending = "none" THEN "returned" ELSE "raised"
    /\ UNCHANGED <<tz, appenders, current_end, chunk_duration_seconds, total_transactions, total_chunks_processed,
                   start_time, last_processed_time, start_epoch, end_epoch, chunks, i,
                   cat, all_transactions, pending, file, writes, last_fetch, log_progress>>
    /\ UNCHANGED callvars

\* finally: _log_final_summary, then the return or the re-raise.
Finally ==
    /\ pc = "finally"
    /\ summaries' = summaries + 1
    /\ pc' = IF pending = "none" THEN "returned" ELSE "raised"
    /\ UNCHANGED <<tz, appenders, current_end, chunk_duration_seconds, total_transactions, total_chunks_processed,
                   start_time, last_processed_time, start_epoch, end_epoch, chunks, i,
                   cat, all_transactions, pending, file, writes, last_fetch, log_progress>>
    /\ UNCHANGED callvars

Next ==
    \/ PollStart
    \/ FetchCategory
    \/ ProcessBatch
    \/ Sleep
    \/ ExceptKeyboardInterrupt
    \/ ExceptException
    \/ Finally

Spec == Init /\ [][Next]_vars

(* ------------------------ the planner on its own ----------------------- *)

\* A poller and the arguments of one _get_chunk_boundaries call on it.
InitPlanner ==
    /\ chunk_duration_seconds \in {m * SecondsPerMinute : m \in 1..PlannerMaxChunkMinutes}
    /\ start_epoch \in PlannerEpochs
    /\ end_epoch \in PlannerEpochs
    /\ total_transactions = 0
    /\ total_chunks_processed = 0
    /\ start_time = NoTime
    /\ last_processed_time = NoTime
    /\ pc = "idle"
    /\ chunks = <<>>
    /\ i = 1
    /\ cat = 1
    /\ all_transactions = <<>>
    /\ pending = "none"
    /\ file = Absent
    /\ writes = <<>>
    /\ last_fetch = NoFetch
    /\ log_progress = "none"
    /\ summaries = 0
    /\ NoCalls
    /\ tz = Utc
    /\ appenders = NoAppenders
    /\ current_end = NoTime

\* chunks = self._get_chunk_boundaries(start_epoch, end_epoch)
PlanChunks ==
    /\ pc = "idle"
    /\ chunks' = _get_chunk_boundaries(start_epoch, end_epoch, chunk_duration_seconds)
    /\ pc' = "planned"
    /\ UNCHANGED <<tz, appenders, current_end, chunk_duration_seconds, total_transactions, total_chunks_processed,
                   start_time, last_processed_time, start_epoch, end_epoch, i, cat,
                   all_transactions, pending, file, writes, last_fetch, log_progress,
                   summaries>>
    /\ UNCHANGED callvars

NextPlanner == PlanChunks

SpecPlanner == InitPlanner /\ [][NextPlanner]_vars

(* ----------------------- the persistor on its own ---------------------- *)

\* The batches handed to the persistor hold at most MaxBatchLen records.
MaxBatchLen == 2

\* A poller that is not polling.
PollerIdle ==
    /\ chunk_duration_seconds = SecondsPerMinute
    /\ total_transactions = 0
    /\ total_chunks_processed = 0
    /\ start_time = NoTime
    /\ last_processed_time = NoTime
    /\ pc = "idle"
    /\ start_epoch = 0
    /\ end_epoch = 0
    /\ chunks = <<>>
    /\ i = 1
    /\ cat = 1
    /\ all_transactions = <<>>
    /\ pending = "none"
    /\ file = Absent
    /\ writes = <<>>
    /\ last_fetch = NoFetch
    /\ log_progress = "none"
    /\ summaries = 0

\* The canonical records the batches are made of: what parse_transaction
\* makes of the provider's records, and an ERROR record.
SinkRecords ==
    {parse_transaction(Chain[k], Chain[k].category = "internal") : k \in 1..Len(Chain)}
        \cup {ErrorRecord(Chain[1], Formatted(EpochStep))}

Batches == UNION {[1..n -> SinkRecords] : n \in 0..MaxBatchLen}

\* CSVPersistor.persist_transactions as a whole: what it returns and the
\* destination it leaves.
PersistCall(existing, transactions) ==
    IF transactions = <<>>
    THEN [returns |-> "", file |-> existing]
    ELSE [returns |-> "filepath", file |-> persist_transactions(transactions)]

\* Mutant: a destination that cannot be read is started afresh.
AppendCallOverwritingUnreadable(existing, transactions, readable) ==
    IF transactions = <<>>
    THEN [returns |-> "True", file |-> existing]
    ELSE IF existing.exists /\ ~readable
    THEN [returns |-> "False", file |-> persist_transactions(transactions)]
    ELSE [returns |-> "True", file |-> append_transactions(existing, transactions)]

\* CSVPersistor.append_transactions as a whole; readable tells whether
\* pd.read_csv succeeds on a destination that exists.
AppendCall(existing, transactions, readable) ==
    IF transactions = <<>>
    THEN [returns |-> "True", file |-> existing]
    ELSE IF existing.exists /\ ~readable
    THEN [returns |-> "False", file |-> existing]
    ELSE [returns |-> "True", file |-> append_transactions(existing, transactions)]

\* A CSVPersistor and a destination that does not exist yet.
InitSink ==
    /\ PollerIdle
    /\ tz = Utc
    /\ appenders = NoAppenders
    /\ current_end = NoTime
    /\ NoCalls

\* persistor.persist_transactions(transactions, filename)
SinkPersist ==
    /\ pc = "idle"
    /\ \E transactions \in Batches :
        /\ sink_call' = [op |-> "persist", transactions |-> transactions,
                         readable |-> TRUE,
                         returns |-> PersistCall(file, transactions).returns]
        /\ file' = PersistCall(file, transactions).file
    /\ file_before' = file
    /\ pc' = "persisted"
    /\ UNCHANGED <<tz, appenders, current_end, chunk_duration_seconds, total_transactions, total_chunks_processed,
                   start_time, last_processed_time, start_epoch, end_epoch, chunks, i,
                   cat, all_transactions, pending, writes, last_fetch, log_progress,
                   summaries>>
    /\ UNCHANGED <<raw_tx, parsed_tx, responses, address, start_arg, end_arg, run_result>>

\* persistor.append_transactions(transactions, filename), on a destination
\* that persist_transactions wrote or on one that is absent.
SinkAppend ==
    /\ pc \in {"idle", "persisted"}
    /\ \E transactions \in Batches, readable \in BOOLEAN :
        /\ ~readable => file.exists
        /\ sink_call' = [op |-> "append", transactions |-> transactions,
                         readable |-> readable,
                         returns |-> AppendCall(file, transactions, readable).returns]
        /\ file' = AppendCall(file, transactions, readable).file
    /\ file_before' = file
    /\ pc' = "appended"
    /\ UNCHANGED <<tz, appenders, current_end, chunk_duration_seconds, total_transactions, total_chunks_processed,
                   start_time, last_processed_time, start_epoch, end_epoch, chunks, i,
                   cat, all_transactions, pending, writes, last_fetch, log_progress,
                   summaries>>
    /\ UNCHANGED <<raw_tx, parsed_tx, responses, address, start_arg, end_arg, run_result>>

NextSink ==
    \/ SinkPersist
    \/ SinkAppend

SpecSink == InitSink /\ [][NextSink]_vars

(* ---------------------- the normalizers on their own ------------------- *)

\* A parser, a tracker, and one raw record of some category.
InitParser ==
    /\ PollerIdle
    /\ tz = Utc
    /\ appenders = NoAppenders
    /\ current_end = NoTime
    /\ raw_tx \in RawRecords
    /\ parsed_tx = NoOutcome
    /\ responses = <<>>
    /\ sink_call = NoSinkCall
    /\ file_before = Absent
    /\ address = NoArgument
    /\ start_arg = NoArgument
    /\ end_arg = NoArgument
    /\ run_result = "none"

\* parser.parse_transaction(tx, internal=...) as _fetch_transactions_for_chunk
\* calls it: internal is True for the records of the internal category.
ParseTransaction ==
    /\ pc = "idle"
    /\ parsed_tx' = ParseOutcome(raw_tx, raw_tx.category = "internal")
    /\ pc' = "parsed"
    /\ UNCHANGED <<tz, appenders, current_end, chunk_duration_seconds, total_transactions, total_chunks_processed,
                   start_time, last_processed_time, start_epoch, end_epoch, chunks, i,
                   cat, all_transactions, pending, file, writes, last_fetch,
                   log_progress, summaries>>
    /\ UNCHANGED <<raw_tx, responses, sink_call, file_before, address, start_arg,
                   end_arg, run_result>>

\* The tracker's _process_transaction_batch on the record, with the type
\* process_transactions passes for the record's category.
ProcessTransaction ==
    /\ pc = "idle"
    /\ parsed_tx' = ProcessOutcome(raw_tx, CategoryType(raw_tx.category))
    /\ pc' = "processed"
    /\ UNCHANGED <<tz, appenders, current_end, chunk_duration_seconds, total_transactions, total_chunks_processed,
                   start_time, last_processed_time, start_epoch, end_epoch, chunks, i,
                   cat, all_transactions, pending, file, writes, last_fetch,
                   log_progress, summaries>>
    /\ UNCHANGED <<raw_tx, responses, sink_call, file_before, address, start_arg,
                   end_arg, run_result>>

NextParser ==
    \/ ParseTransaction
    \/ ProcessTransaction

SpecParser == InitParser /\ [][NextParser]_vars

(* ------------------- one chunk's fetches on their own ------------------ *)

\* A category fetch returns at most MaxResponseLen raw records.
MaxResponseLen == 1

\* The raw records a connector may return: a plain one, one whose
\* tokenDecimal is no number, one whose timestamp is beyond time_t.
ResponseShapes == {"plain", "bad_decimal", "bad_timestamp"}

ResponseRecord(category, position, shape) ==
    [hash |-> (MaxResponseLen + 1) * category + position,
     from |-> OtherAddress, to |-> OtherAddress, input |-> "0x",
     timeStamp |-> IF shape = "bad_timestamp" THEN Huge ELSE Numeric(EpochStep),
     value |-> Numeric(1500000),
     tokenDecimal |-> IF shape = "bad_decimal" THEN Text ELSE Numeric(6),
     gasUsed |-> Numeric(21000), isError |-> "0",
     category |-> Categories[category]]

\* The lists the get_* method of the given category (1..5) may return.
ResponseLists(category) ==
    UNION { { [k \in 1..n |-> ResponseRecord(category, k, shapes[k])] :
                shapes \in [1..n -> ResponseShapes] } : n \in 0..MaxResponseLen }

\* A poller whose _fetch_transactions_for_chunk has not been called.
InitFetch ==
    /\ PollerIdle
    /\ tz = Utc
    /\ appenders = NoAppenders
    /\ current_end = NoTime
    /\ NoCalls

\* all_transactions = []
StartChunkFetch ==
    /\ pc = "idle"
    /\ pc' = "fetch"
    /\ cat' = 1
    /\ all_transactions' = <<>>
    /\ responses' = <<>>
    /\ UNCHANGED <<tz, appenders, current_end, chunk_duration_seconds, total_transactions, total_chunks_processed,
                   start_time, last_processed_time, start_epoch, end_epoch, chunks, i,
                   pending, file, writes, last_fetch, log_progress, summaries>>
    /\ UNCHANGED <<raw_tx, parsed_tx, sink_call, file_before, address, start_arg,
                   end_arg, run_result>>

\* One category of _fetch_transactions_for_chunk: the connector returns a
\* list, every record of it is parsed and appended; what parse_transaction
\* raises leaves the method.  After the fifth category the batch is returned.
ChunkFetchCategory ==
    /\ pc = "fetch"
    /\ \E returned \in ResponseLists(cat) :
        LET parsed == ParseAll(returned, Categories[cat] = "internal")
        IN  /\ responses' = Append(responses, returned)
            /\ IF parsed.raises # "none"
               THEN /\ pc' = "raised"
                    /\ pending' = "Exception"
                    /\ UNCHANGED <<cat, all_transactions>>
               ELSE /\ all_transactions' = all_transactions \o parsed.records
                    /\ cat' = IF cat < NumCategories THEN cat + 1 ELSE cat
                    /\ pc' = IF cat < NumCategories THEN "fetch" ELSE "fetched"
                    /\ UNCHANGED pending
    /\ UNCHANGED <<tz, appenders, current_end, chunk_duration_seconds, total_transactions, total_chunks_processed,
                   start_time, last_processed_time, start_epoch, end_epoch, chunks, i,
                   file, writes, last_fetch, log_progress, summaries>>
    /\ UNCHANGED <<raw_tx, parsed_tx, sink_call, file_before, address, start_arg,
                   end_arg, run_result>>

NextFetch ==
    \/ StartChunkFetch
    \/ ChunkFetchCategory

SpecFetch == InitFetch /\ [][NextFetch]_vars

(* ------------------------- the tracker's run --------------------------- *)

\* len(address) of a well-formed address
AddressLength == 42

\* The address arguments: with or without the 0x prefix, of the right length
\* or one character short, and with the characters after the first two being
\* hex digits only, hex digits with what int(..., 16) also accepts (a leading
\* sign, an underscore between digits, surrounding blanks), or something
\* int(..., 16) rejects.
AddressArguments ==
    [prefix : BOOLEAN,
     length : {AddressLength - 1, AddressLength},
     body : {"hex", "signed_hex", "other"}]

\* validate_address
validate_address(a) ==
    /\ a.prefix
    /\ a.length = AddressLength
    /\ a.body \in {"hex", "signed_hex"}

\* The empty string as an argument.
Empty == [kind |-> "empty", n |-> 0]

\* The epoch arguments: None, '', a text that is no integer, integer texts.
EpochArguments == {Missing, Empty, Text} \cup {Numeric(k * EpochStep) : k \in (-1)..2}

\* Python's truth value of an Optional[str] argument and of an Optional[int].
TruthyArgument(arg) == arg.kind \notin {"missing", "empty"}
TruthyInt(value) == value.kind = "numeric" /\ value.n # 0

\* validate_epoch: the integer, or None.
validate_epoch(epoch_str) ==
    IF epoch_str.kind = "numeric" /\ epoch_str.n >= 0 THEN epoch_str ELSE Missing

\* start_epoch_int and end_epoch_int of run, once they are set.
EpochInt(arg) == IF TruthyArgument(arg) THEN validate_epoch(arg) ELSE Missing

\* run returns "" before process_transactions is called.
RunRejects(a, start, end) ==
    \/ ~validate_address(a)
    \/ TruthyArgument(start) /\ ~TruthyInt(EpochInt(start))
    \/ TruthyArgument(end) /\ ~TruthyInt(EpochInt(end))
    \/ /\ TruthyInt(EpochInt(start))
       /\ TruthyInt(EpochInt(end))
       /\ EpochInt(start).n > EpochInt(end).n

\* The loop of _process_transaction_batch over one category's list: the
\* records, or the exception of the first record that raises.
RECURSIVE ProcessAll(_, _)
ProcessAll(txs, tx_type) ==
    IF txs = <<>> THEN [raises |-> "none", records |-> <<>>]
    ELSE LET first == ProcessOutcome(Head(txs), tx_type)
             rest == ProcessAll(Tail(txs), tx_type)
         IN  IF first.raises # "none" THEN [raises |-> first.raises, records |-> <<>>]
             ELSE IF rest.raises # "none" THEN rest
             ELSE [raises |-> "none", records |-> <<first.record>> \o rest.records]

\* data['result'] of a category whose first record has a tokenDecimal that is
\* no number (the provider sends '' for a token without decimals) and whose
\* second record is plain; the get_* method passes the fields through.
MalformedResult(category) ==
    << ResponseRecord(category, 1, "bad_decimal"), ResponseRecord(category, 2, "plain") >>

\* The list the tracker's get_* call of category number `category` returns.
TrackerFetchResult(category, request, malformed, start, end) ==
    IF request = "ok" /\ malformed
    THEN FilterByEpoch(MalformedResult(category), start, end)
    ELSE FetchResult(Categories[category], request, start, end)

\* A tracker and the arguments of one run; no output file of that name yet.
InitTracker ==
    /\ PollerIdle
    /\ tz = Utc
    /\ appenders = NoAppenders
    /\ current_end = NoTime
    /\ raw_tx = NoRaw
    /\ parsed_tx = NoOutcome
    /\ responses = <<>>
    /\ sink_call = NoSinkCall
    /\ file_before = Absent
    /\ address \in AddressArguments
    /\ start_arg \in EpochArguments
    /\ end_arg \in EpochArguments
    /\ run_result = "none"

\* run up to the call of process_transactions: the three validations.  None
\* and 0 are the same to the connectors, which test the bounds for truth.
RunValidate ==
    /\ pc = "idle"
    /\ IF RunRejects(address, start_arg, end_arg)
       THEN /\ run_result' = ""
            /\ pc' = "returned"
            /\ UNCHANGED <<start_epoch, end_epoch>>
       ELSE /\ start_epoch' = EpochInt(start_arg).n
            /\ end_epoch' = EpochInt(end_arg).n
            /\ pc' = "tracker_fetch"
            /\ UNCHANGED run_result
    /\ cat' = 1
    /\ all_transactions' = <<>>
    /\ UNCHANGED <<tz, appenders, current_end, chunk_duration_seconds, total_transactions, total_chunks_processed,
                   start_time, last_processed_time, chunks, i, pending, file, writes,
                   last_fetch, log_progress, summaries>>
    /\ UNCHANGED <<raw_tx, parsed_tx, responses, sink_call, file_before, address,
                   start_arg, end_arg>>

\* One turn of the loop of process_transactions: the category's fetch and
\* _process_transaction_batch, inside try/except Exception with continue.
TrackerFetchCategory ==
    /\ pc = "tracker_fetch"
    /\ \E request \in {"ok", "status_error", "exception"}, malformed \in BOOLEAN :
        LET category == Categories[cat]
            result == TrackerFetchResult(cat, request, malformed, start_epoch, end_epoch)
            processed == ProcessAll(result, CategoryType(category))
        IN  /\ responses' = Append(responses, result)
            /\ all_transactions' =
                  IF request = "exception" \/ processed.raises # "none"
                  THEN all_transactions
                  ELSE all_transactions \o processed.records
    /\ cat' = IF cat < NumCategories THEN cat + 1 ELSE cat
    /\ pc' = IF cat < NumCategories THEN "tracker_fetch" ELSE "export"
    /\ UNCHANGED <<tz, appenders, current_end, chunk_duration_seconds, total_transactions, total_chunks_processed,
                   start_time, last_processed_time, start_epoch, end_epoch, chunks, i,
                   pending, file, writes, last_fetch, log_progress, summaries>>
    /\ UNCHANGED <<raw_tx, parsed_tx, sink_call, file_before, address, start_arg,
                   end_arg, run_result>>

\* The sort that ends process_transactions, then run's test for no
\* transactions, export_to_csv and the return.
TrackerExport ==
    /\ pc = "export"
    /\ IF all_transactions = <<>>
       THEN /\ run_result' = ""
            /\ UNCHANGED file
       ELSE /\ run_result' = "filename"
            /\ file' = [exists |-> TRUE, header |-> Header,
                        rows |-> ToRows(SortDesc(all_transactions))]
    /\ all_transactions' = SortDesc(all_transactions)
    /\ pc' = "returned"
    /\ UNCHANGED <<tz, appenders, current_end, chunk_duration_seconds, total_transactions, total_chunks_processed,
                   start_time, last_processed_time, start_epoch, end_epoch, chunks, i,
                   cat, pending, writes, last_fetch, log_progress, summaries>>
    /\ UNCHANGED <<raw_tx, parsed_tx, responses, sink_call, file_before, address,
                   start_arg, end_arg>>

NextTracker ==
    \/ RunValidate
    \/ TrackerFetchCategory
    \/ TrackerExport

SpecTracker == InitTracker /\ [][NextTracker]_vars

(* ------------------- the planner's loop, turn by turn ------------------ *)

\* The chunk_duration_minutes a TransactionPoller can be constructed with:
\* __init__ takes any int and multiplies it by 60.
ConstructorMinutes == (-1)..PlannerMaxChunkMinutes

\* The model follows the loop for at most this many chunks, which is more
\* than any plan over PlannerEpochs with a duration of a minute or more has.
MaxPlanLen == PlannerMaxEpochSteps

\* A poller as constructed, and the arguments of one _get_chunk_boundaries call.
InitPlannerLoop ==
    /\ chunk_duration_seconds \in {m * SecondsPerMinute : m \in ConstructorMinutes}
    /\ start_epoch \in PlannerEpochs
    /\ end_epoch \in PlannerEpochs
    /\ total_transactions = 0
    /\ total_chunks_processed = 0
    /\ start_time = NoTime
    /\ last_processed_time = NoTime
    /\ pc = "idle"
    /\ chunks = <<>>
    /\ i = 1
    /\ cat = 1
    /\ all_transactions = <<>>
    /\ pending = "none"
    /\ file = Absent
    /\ writes = <<>>
    /\ last_fetch = NoFetch
    /\ log_progress = "none"
    /\ summaries = 0
    /\ NoCalls
    /\ tz = Utc
    /\ appenders = NoAppenders
    /\ current_end = NoTime

\* chunks = []; current_end = end_epoch
PlanEnter ==
    /\ pc = "idle"
    /\ chunks' = <<>>
    /\ current_end' = end_epoch
    /\ pc' = "planning"
    /\ UNCHANGED <<tz, appenders, chunk_duration_seconds, total_transactions,
                   total_chunks_processed, start_time, last_processed_time, start_epoch,
                   end_epoch, i, cat, all_transactions, pending, file, writes,
                   last_fetch, log_progress, summaries>>
    /\ UNCHANGED callvars

\* One turn of the while loop: the chunk below current_end is appended.
PlanIterate ==
    /\ pc = "planning"
    /\ current_end > start_epoch
    /\ Len(chunks) < MaxPlanLen
    /\ LET current_start == Max(start_epoch, current_end - chunk_duration_seconds)
       IN  /\ chunks' = Append(chunks, <<current_start, current_end>>)
           /\ current_end' = current_start
    /\ UNCHANGED <<tz, appenders, chunk_duration_seconds, total_transactions,
                   total_chunks_processed, start_time, last_processed_time, pc,
                   start_epoch, end_epoch, i, cat, all_transactions, pending, file,
                   writes, last_fetch, log_progress, summaries>>
    /\ UNCHANGED callvars

\* The loop's exit: return list(reversed(chunks))
PlanReturn ==
    /\ pc = "planning"
    /\ ~(current_end > start_epoch)
    /\ chunks' = Reverse(chunks)
    /\ pc' = "planned"
    /\ UNCHANGED <<tz, appenders, current_end, chunk_duration_seconds,
                   total_transactions, total_chunks_processed, start_time,
                   last_processed_time, start_epoch, end_epoch, i, cat,
                   all_transactions, pending, file, writes, last_fetch, log_progress,
                   summaries>>
    /\ UNCHANGED callvars

NextPlannerLoop ==
    \/ PlanEnter
    \/ PlanIterate
    \/ PlanReturn

\* The call runs on one thread that nothing suspends: a step that can be
\* taken is taken.
SpecPlannerLoop ==
    InitPlannerLoop /\ [][NextPlannerLoop]_vars /\ WF_vars(NextPlannerLoop)

(* ---------------------- the sort of a chunk's batch -------------------- *)

\* A chunk's batch holds at most MaxSortLen records.
MaxSortLen == 3
\* The steps the timestamps of those records are drawn from.
MaxSortSteps == 4

\* The timestamps of the records of one chunk: integer texts, or none at all
\* (the connector's filter reads a missing timeStamp as 0 and lets it pass).
SortStamps == {Missing} \cup {Numeric(k * EpochStep) : k \in 1..MaxSortSteps}

SortRaw(position, stamp) ==
    [ResponseRecord(1, position, "plain") EXCEPT !.hash = position, !.timeStamp = stamp]

\* The lists the fetches of one chunk may return, in the order returned.
SortBatches ==
    UNION { { [k \in 1..n |-> SortRaw(k, stamps[k])] : stamps \in [1..n -> SortStamps] } :
                n \in 0..MaxSortLen }

\* A poller in some time zone whose first chunk's fetch is about to return.
InitSort ==
    /\ PollerIdle
    /\ tz \in Zones
    /\ appenders = NoAppenders
    /\ current_end = NoTime
    /\ raw_tx = NoRaw
    /\ parsed_tx = NoOutcome
    /\ responses \in { <<returned>> : returned \in SortBatches }
    /\ sink_call = NoSinkCall
    /\ file_before = Absent
    /\ address = NoArgument
    /\ start_arg = NoArgument
    /\ end_arg = NoArgument
    /\ run_result = "none"

\* _fetch_transactions_for_chunk: every record returned is parsed into the batch.
SortFetch ==
    /\ pc = "idle"
    /\ all_transactions' = ParseAll(responses[1], FALSE).records
    /\ pc' = "process"
    /\ UNCHANGED <<tz, appenders, current_end, chunk_duration_seconds, total_transactions, total_chunks_processed,
                   start_time, last_processed_time, start_epoch, end_epoch, chunks, i,
                   cat, pending, file, writes, last_fetch, log_progress, summaries>>
    /\ UNCHANGED callvars

\* The loop body of the first chunk after the fetch: the sort, the write of
\* a batch that is not empty, the count.
SortAndPersist ==
    /\ pc = "process"
    /\ all_transactions' = SortDesc(all_transactions)
    /\ IF all_transactions # <<>>
       THEN /\ writes' = Append(writes, [op |-> "persist", result |-> "written"])
            /\ file' = persist_transactions(SortDesc(all_transactions))
            /\ total_transactions' = total_transactions + Len(all_transactions)
       ELSE UNCHANGED <<writes, file, total_transactions>>
    /\ pc' = "sorted"
    /\ UNCHANGED <<tz, appenders, current_end, chunk_duration_seconds, total_chunks_processed, start_time,
                   last_processed_time, start_epoch, end_epoch, chunks, i, cat, pending,
                   last_fetch, log_progress, summaries>>
    /\ UNCHANGED callvars

NextSort ==
    \/ SortFetch
    \/ SortAndPersist

SpecSort == InitSort /\ [][NextSort]_vars

(* ------------------ two processes appending to one file ---------------- *)

\* Two CSVPersistor objects (two poll runs, or two processes) that were given
\* the same output directory and filename.
Appenders == {1, 2}

\* The non-empty batches appender p may be given; its records carry hashes
\* of their own, so that a row of the destination tells who wrote it.
OwnHash(p, k) == MaxBatchLen * p + k
AppenderBatches(p) ==
    { [k \in 1..Len(batch) |-> [batch[k] EXCEPT !.transaction_hash = OwnHash(p, k)]] :
        batch \in Batches \ {<<>>} }

\* Both calls have been made with their batches; neither has looked at the
\* destination yet, which does not exist.
InitConcurrent ==
    /\ PollerIdle
    /\ tz = Utc
    /\ current_end = NoTime
    /\ NoCalls
    /\ appenders \in
          { [p \in Appenders |->
                [pc |-> "called", transactions |-> batches[p], existing_df |-> Absent,
                 read_at |-> 0, wrote_at |-> 0, returns |-> "none"]] :
              batches \in [Appenders -> UNION {AppenderBatches(p) : p \in Appenders}] }
    /\ \A p \in Appenders : appenders[p].transactions \in AppenderBatches(p)

\* append_transactions up to the DataFrame of the existing file: the test
\* for the file, pd.read_csv, and the return of False when the read fails.
AppendRead(p) ==
    /\ appenders[p].pc = "called"
    /\ \E readable \in BOOLEAN :
        /\ ~readable => file.exists
        /\ appenders' = [appenders EXCEPT ![p] =
              IF readable
              THEN [@ EXCEPT !.pc = "read", !.existing_df = file, !.read_at = Len(writes)]
              ELSE [@ EXCEPT !.pc = "returned", !.returns = "False",
                             !.read_at = Len(writes)]]
    /\ UNCHANGED <<pollvars, callvars, tz, current_end>>

\* Mutant: the existing rows are read again when the file is rewritten.
AppendRewriteRereading(p) ==
    /\ appenders[p].pc = "read"
    /\ file' = append_transactions(file, appenders[p].transactions)
    /\ writes' = Append(writes, [op |-> "append", result |-> "written"])
    /\ appenders' = [appenders EXCEPT ![p] =
          [@ EXCEPT !.pc = "returned", !.returns = "True", !.wrote_at = Len(writes) + 1]]
    /\ UNCHANGED <<chunk_duration_seconds, total_transactions, total_chunks_processed,
                   start_time, last_processed_time, pc, start_epoch, end_epoch, chunks,
                   i, cat, all_transactions, pending, last_fetch, log_progress, summaries>>
    /\ UNCHANGED <<callvars, tz, current_end>>

\* The rest of append_transactions: the new rows are put after the rows that
\* were read, and to_csv rewrites the whole file.
AppendRewrite(p) ==
    /\ appenders[p].pc = "read"
    /\ file' = append_transactions(appenders[p].existing_df, appenders[p].transactions)
    /\ writes' = Append(writes, [op |-> "append", result |-> "written"])
    /\ appenders' = [appenders EXCEPT ![p] =
          [@ EXCEPT !.pc = "returned", !.returns = "True", !.wrote_at = Len(writes) + 1]]
    /\ UNCHANGED <<chunk_duration_seconds, total_transactions, total_chunks_processed,
                   start_time, last_processed_time, pc, start_epoch, end_epoch, chunks,
                   i, cat, all_transactions, pending, last_fetch, log_progress, summaries>>
    /\ UNCHANGED <<callvars, tz, current_end>>

NextConcurrent ==
    \/ \E p \in Appenders : AppendRead(p)
    \/ \E p \in Appenders : AppendRewrite(p)

SpecConcurrent == InitConcurrent /\ [][NextConcurrent]_vars

(* ======================= properties of the planner ===================== *)

\* poll_transactions has been called and chunks holds the plan of that call.
Planned == pc # "idle"

Width(chunk) == chunk[2] - chunk[1]

OrderedAscending ==
    /\ \A k \in 1..Len(chunks) : chunks[k][1] < chunks[k][2]
    /\ \A k \in 1..Len(chunks) : \A l \in 1..Len(chunks) :
          k < l => (chunks[k][1] < chunks[l][1] /\ chunks[k][2] < chunks[l][2])

Contiguous ==
    \A k \in 1..(Len(chunks) - 1) : chunks[k][2] = chunks[k + 1][1]

CoversExactly ==
    /\ chunks # <<>>
    /\ chunks[1][1] = start_epoch
    /\ chunks[Len(chunks)][2] = end_epoch

WidthBounded ==
    \A k \in 1..Len(chunks) : Width(chunks[k]) <= chunk_duration_seconds

CeilDiv(a, b) == (a + b - 1) \div b

\* C2: for start_epoch < end_epoch there are exactly
\* ceil((end_epoch - start_epoch) / d) chunks, every chunk but possibly the
\* first is exactly d wide, the first starts at start_epoch and the last ends
\* at end_epoch; a range shorter than d gives the one chunk
\* (start_epoch, end_epoch), and a range that is a multiple of d gives
\* (end_epoch - start_epoch) / d chunks that are all d wide.
C2_ChunkCountAndWidths ==
    (Planned /\ start_epoch < end_epoch) =>
        LET d == chunk_duration_seconds
            range == end_epoch - start_epoch
        IN  /\ Len(chunks) = CeilDiv(range, d)
            /\ \A k \in 2..Len(chunks) : Width(chunks[k]) = d
            /\ chunks[1][1] = start_epoch
            /\ chunks[Len(chunks)][2] = end_epoch
            /\ range < d => chunks = <<(<<start_epoch, end_epoch>>)>>
            /\ range % d = 0 =>
                  /\ Len(chunks) = range \div d
                  /\ \A k \in 1..Len(chunks) : Width(chunks[k]) = d

\* A range that is not a multiple of d and longer than d: the remainder is
\* the first chunk and the last chunk is d wide.
C2_Witness ==
    /\ Planned
    /\ start_epoch < end_epoch
    /\ (end_epoch - start_epoch) % chunk_duration_seconds # 0
    /\ Len(chunks) >= 2
    /\ Width(chunks[1]) < chunk_duration_seconds
    /\ Width(chunks[Len(chunks)]) = chunk_duration_seconds

C4_FirstWriteCreates ==
    \A k \in 1..Len(writes) :
        writes[k].op = (IF k = 1 THEN "persist" ELSE "append")

\* The provider holds no record of the address in [start_epoch, end_epoch].
NoActivityInRange ==
    \A k \in 1..Len(Chain) :
        Chain[k].timeStamp.n < start_epoch \/ Chain[k].timeStamp.n > end_epoch

\* C5: a chunk whose five fetches gave no record makes no persistor call and
\* leaves the destination alone, while total_chunks_processed and
\* last_processed_time advance to that chunk; a call that returns without any
\* record fetched has total_transactions = 0, total_chunks_processed = the
\* number of planned chunks, and has attempted no write.
C5_EmptyChunkNoWrite ==
    /\ [][(pc = "process" /\ all_transactions = <<>>) =>
            /\ writes' = writes
            /\ file' = file
            /\ total_transactions' = total_transactions
            /\ total_chunks_processed' = i
            /\ last_processed_time' = chunks[i][2]
            /\ pc' = "sleep"]_vars
    /\ [](pc = "returned" /\ NoActivityInRange =>
            /\ total_transactions = 0
            /\ total_chunks_processed = Len(chunks)
            /\ writes = <<>>
            /\ file \in {Absent, Stale})
    /\ [](pc = "returned" /\ total_transactions = 0 =>
            /\ total_chunks_processed = Len(chunks)
            /\ writes = <<>>
            /\ file \in {Absent, Stale})

\* A call over two chunks or more has returned with every chunk empty.
C5_Witness ==
    /\ pc = "returned"
    /\ Len(chunks) >= 2
    /\ total_transactions = 0
    /\ total_chunks_processed = Len(chunks)
    /\ last_processed_time = end_epoch
    /\ writes = <<>>

\* The KeyboardInterrupt has been handled: the except clause has run.
InterruptHandled == pending = "KeyboardInterrupt" /\ pc \in {"finally", "raised"}
ErrorHandled == pending = "Exception" /\ pc \in {"finally", "raised"}

\* Nothing of the chunk loop happens in this step.
NoChunkActivity ==
    UNCHANGED <<i, cat, all_transactions, file, writes, last_fetch,
                total_transactions, total_chunks_processed, last_processed_time>>

\* C6 as claimed: whichever chunk the KeyboardInterrupt arrives in, the first
\* included, a progress summary with status INTERRUPTED has been logged by the
\* time the interrupt leaves poll_transactions.
C6_Original ==
    InterruptHandled => log_progress = "INTERRUPTED"

\* C6 as amended: after a KeyboardInterrupt in chunk k no later chunk is
\* fetched or written and the interrupt propagates only after the except
\* clause and the final summary have run; the progress summary with status
\* INTERRUPTED is logged exactly when last_processed_time is set, that is
\* when some chunk has completed on this poller (in this call or an earlier
\* one), so an interrupt in the first chunk of a fresh poller logs none.
C6_InterruptStopsRun ==
    /\ [](InterruptHandled =>
            (log_progress = "INTERRUPTED" <=> last_processed_time # NoTime))
    /\ [][(pending = "KeyboardInterrupt" /\ pc \in {"except", "finally"}) =>
            (NoChunkActivity /\ pending' = pending)]_vars
    /\ [][(pending' = "KeyboardInterrupt" /\ pc' = "raised") =>
            (pc = "finally" /\ summaries' = 1)]_vars

\* An interrupt in the second chunk has propagated after INTERRUPTED was logged.
C6_Witness ==
    /\ pc = "raised"
    /\ pending = "KeyboardInterrupt"
    /\ i = 2
    /\ total_chunks_processed = 1
    /\ log_progress = "INTERRUPTED"
    /\ Len(chunks) >= 3

\* C7 as claimed: every call logs the final summary exactly once when it
\* ends, and an exception other than a cancellation during a chunk has a
\* summary with status ERROR logged before it propagates.
C7_Original ==
    /\ pc \in {"returned", "raised"} => summaries = 1
    /\ ErrorHandled => log_progress = "ERROR"

\* C7 as amended: every call logs the final summary exactly once, after all
\* chunk activity, whether it returns, is interrupted or fails, and the
\* exception that occurred is the one that propagates; the summary with
\* status ERROR is logged exactly when last_processed_time is set (some chunk
\* has completed on this poller), so a failure in the first chunk of a fresh
\* poller logs none.
C7_SummaryOnceAndError ==
    /\ pc \in {"returned", "raised"} => summaries = 1
    /\ pc \in {"fetch", "process", "sleep", "except", "finally"} => summaries = 0
    /\ pc = "raised" <=> (summaries = 1 /\ pending # "none")
    /\ pc = "returned" <=> (summaries = 1 /\ pending = "none")
    /\ ErrorHandled => (log_progress = "ERROR" <=> last_processed_time # NoTime)
    /\ log_progress = "ERROR" => pending = "Exception"

\* A failure in the second chunk has propagated after ERROR and the summary
\* were logged.
C7_Witness ==
    /\ pc = "raised"
    /\ pending = "Exception"
    /\ i = 2
    /\ log_progress = "ERROR"
    /\ summaries = 1

\* C8, as claimed: when append_transactions cannot read the existing
\* destination, the failure reaches the caller of poll_transactions: the run
\* is aborting or has aborted, it does not go on to the sleep, to later
\* chunks or to a normal return.
C8_AppendFailureEscalates ==
    (\E k \in 1..Len(writes) : writes[k].result = "False") =>
        (pending = "Exception" /\ pc \in {"except", "finally", "raised"})

\* C9, as claimed: a failure of one category fetch does not keep the other
\* categories of the chunk from being fetched, so that the last fetch made in
\* any chunk that was started is the fifth one (ERC-1155), unless the user
\* interrupted the run.
C9_AllCategoriesAttempted ==
    (pc \in {"except", "finally", "raised", "returned"}
        /\ last_fetch # NoFetch /\ pending # "KeyboardInterrupt") =>
        last_fetch.category = Categories[NumCategories]

\* The latest fetch hit a provider error or an estimated block number and
\* did not raise.
ProviderTrouble ==
    /\ last_fetch.request \in ProviderErrors \cup {"ok"}
    /\ last_fetch.request \in ProviderErrors \/ last_fetch.lookup = "estimated"

\* C10 as claimed: a provider error in a category fetch, a failed
\* timestamp-to-block lookup included, leaves that category empty for the
\* chunk.
C10_Original ==
    ProviderTrouble => last_fetch.returned = 0

\* C10 as amended: a network failure, a non-success status or a 'no records'
\* answer to the category request makes that category empty for the chunk; a
\* failed timestamp-to-block lookup is logged and replaced by the estimate,
\* after which the request is still made and the category holds whatever
\* that request returns for the chunk; neither raises out of the connector
\* nor aborts the run, which goes on with the next category or with the rest
\* of the chunk.
C10_ProviderErrorsSwallowed ==
    /\ [](last_fetch.request \in ProviderErrors => last_fetch.returned = 0)
    /\ [][(pc = "fetch" /\ last_fetch'.request \in ProviderErrors) =>
            /\ all_transactions' = all_transactions
            /\ pending' = "none"
            /\ pc' = (IF cat < NumCategories THEN "fetch" ELSE "process")
            /\ cat' = (IF cat < NumCategories THEN cat + 1 ELSE cat)]_vars
    /\ [][(pc = "fetch" /\ last_fetch'.request = "ok") =>
            /\ Len(all_transactions') = Len(all_transactions) + last_fetch'.returned
            /\ last_fetch'.returned =
                 Cardinality({k \in 1..Len(Chain) :
                     /\ Chain[k].category = Categories[cat]
                     /\ Chain[k].timeStamp.n >= chunks[i][1]
                     /\ Chain[k].timeStamp.n <= chunks[i][2]})
            /\ pending' = "none"
            /\ pc' = (IF cat < NumCategories THEN "fetch" ELSE "process")]_vars

\* A call has returned with records written although its last fetch met a
\* network failure after an estimated block lookup.
C10_Witness ==
    /\ pc = "returned"
    /\ total_transactions > 0
    /\ last_fetch.request = "network_error"
    /\ last_fetch.lookup = "estimated"
    /\ last_fetch.returned = 0

(* ====================== properties of the persistor ==================== *)

\* append_transactions was called with a non-empty batch on a destination
\* holding the rows persist_transactions wrote.
AppendedToPersisted ==
    /\ pc = "appended"
    /\ sink_call.transactions # <<>>
    /\ file_before.exists
    /\ file_before.rows # <<>>

\* C11, as claimed: persist_transactions with N >= 1 records followed by
\* append_transactions with M >= 1 records on the same destination returns
\* True and leaves N + M rows under the ten-column header of the create
\* path: the N rows that were there, unchanged and first, then the M new
\* rows in their given order.
C11_AppendKeepsExistingRows ==
    (AppendedToPersisted /\ sink_call.readable) =>
        /\ sink_call.returns = "True"
        /\ file.header = Header
        /\ file.header = file_before.header
        /\ Len(file.rows) = Len(file_before.rows) + Len(sink_call.transactions)
        /\ file.rows = file_before.rows \o ToRows(sink_call.transactions)

\* C12: append_transactions with a non-empty batch on a destination that
\* exists and cannot be read returns False, raises nothing and leaves the
\* destination as it was; False is returned in no other case.
C12_UnreadableLeftAlone ==
    /\ (pc = "appended" /\ sink_call.transactions # <<>> /\ ~sink_call.readable) =>
            /\ sink_call.returns = "False"
            /\ file = file_before
    /\ (pc = "appended" /\ sink_call.returns = "False") =>
            /\ sink_call.transactions # <<>>
            /\ file_before.exists
            /\ ~sink_call.readable
            /\ file = file_before

\* An append of two records on an unreadable destination of two rows has
\* returned False and the two rows are still there.
C12_Witness ==
    /\ pc = "appended"
    /\ Len(sink_call.transactions) = 2
    /\ ~sink_call.readable
    /\ sink_call.returns = "False"
    /\ Len(file_before.rows) = 2
    /\ file = file_before

(* ===================== properties of the normalizers =================== *)

\* parse_transaction has been called on raw_tx.
Parsed == pc = "parsed"
\* Building the normal record failed.
NormalRecordFailed == TryParse(raw_tx, raw_tx.category = "internal").raises # "none"

\* C13, as claimed: parse_transaction raises for no raw record; whenever
\* building the normal record fails, the failure being caused by the
\* timestamp included, it returns the best-effort record with
\* transaction_type 'ERROR', is_error '1', value_amount '0', gas_fee_eth '0'
\* and the raw hash, from and to.
C13_ParserNeverRaises ==
    Parsed =>
        /\ parsed_tx.raises = "none"
        /\ NormalRecordFailed =>
              /\ parsed_tx.record.transaction_type = "ERROR"
              /\ parsed_tx.record.is_error = "1"
              /\ parsed_tx.record.value_amount = Zero
              /\ parsed_tx.record.gas_fee_eth = Zero
              /\ parsed_tx.record.transaction_hash = raw_tx.hash
              /\ parsed_tx.record.from_address = raw_tx.from
              /\ parsed_tx.record.to_address = raw_tx.to

\* The timestamp of raw_tx is missing or is no number.
BadTimestamp == raw_tx.timeStamp.kind \in {"missing", "text"}

\* C14 as claimed: a raw record whose timestamp is missing or non-numeric is
\* normalized to a record with transaction_type 'ERROR' and is_error '1'.
C14_Original ==
    (Parsed /\ BadTimestamp) =>
        /\ parsed_tx.record.transaction_type = "ERROR"
        /\ parsed_tx.record.is_error = "1"

\* C14 as amended: a raw record whose timestamp is missing or non-numeric is
\* normalized without raising, and its date_time is the raw timestamp value
\* (empty when missing); the timestamp does not make it an ERROR record: its
\* transaction_type and is_error are those of a record with a good timestamp
\* (is_error the raw isError, '0' by default), and it is an ERROR record with
\* is_error '1' exactly when tokenDecimal is not a number.
C14_BadTimestampPassedThrough ==
    (Parsed /\ BadTimestamp) =>
        /\ parsed_tx.raises = "none"
        /\ parsed_tx.record.date_time = raw_tx.timeStamp
        /\ parsed_tx.record.transaction_type = "ERROR" <=> raw_tx.tokenDecimal.kind = "text"
        /\ raw_tx.tokenDecimal.kind # "text" =>
              /\ parsed_tx.record.is_error = IsErrorOf(raw_tx)
              /\ parsed_tx.record.transaction_type =
                    parse_transaction([raw_tx EXCEPT !.timeStamp = Numeric(EpochStep)],
                                      raw_tx.category = "internal").transaction_type
        /\ raw_tx.tokenDecimal.kind = "text" => parsed_tx.record.is_error = "1"

\* A plain transfer without a timestamp has become an ETH Transfer record
\* with is_error '0' and an empty date_time.
C14_Witness ==
    /\ Parsed
    /\ raw_tx.timeStamp = Missing
    /\ raw_tx.isError = "missing"
    /\ parsed_tx.raises = "none"
    /\ parsed_tx.record.transaction_type = "ETH Transfer"
    /\ parsed_tx.record.is_error = "0"
    /\ parsed_tx.record.date_time = Missing

\* The raw records the category fetches of the chunk returned, in order.
RECURSIVE Flatten(_)
Flatten(lists) ==
    IF lists = <<>> THEN <<>> ELSE Head(lists) \o Flatten(Tail(lists))

\* _fetch_transactions_for_chunk has ended, by returning the batch or by an
\* exception.
ChunkFetchEnded == pc \in {"fetched", "raised"} /\ responses # <<>>

\* C15, as claimed: for every chunk the batch built by
\* _fetch_transactions_for_chunk holds exactly one canonical record per raw
\* record the category fetches returned, in their order, none dropped and
\* none duplicated, and a record whose normal record cannot be built is in
\* it as an ERROR record.
C15_OneRecordPerRaw ==
    ChunkFetchEnded =>
        LET raws == Flatten(responses)
        IN  /\ Len(all_transactions) = Len(raws)
            /\ \A k \in 1..Len(raws) :
                  /\ all_transactions[k].transaction_hash = raws[k].hash
                  /\ TryParse(raws[k], raws[k].category = "internal").raises # "none"
                        => all_transactions[k].transaction_type = "ERROR"

\* The type the five rules of the claim give, the first that matches.
ClaimedType(tx, internal) ==
    IF internal THEN "Internal Transfer"
    ELSE IF Lower(tx.to) \in uniswap_addresses THEN "Uniswap Trade"
    ELSE IF tx.input \notin {"", "0x"} /\ tx.input \in DOMAIN SignatureTypes
    THEN SignatureTypes[tx.input]
    ELSE IF tx.input \notin {"", "0x"} THEN "Contract Interaction"
    ELSE "ETH Transfer"

\* C16, as claimed: _parse_transaction_type gives every raw record the type
\* of the first rule that matches: (1) internal flag; (2) destination in the
\* router table; (3) call-data with a listed leading signature; (4) any
\* other non-empty call-data (not '0x'), also when the destination address
\* is empty or absent; (5) otherwise ETH Transfer.
C16_FirstMatchWins ==
    (Parsed /\ parsed_tx.raises = "none" /\ ~NormalRecordFailed) =>
        parsed_tx.record.transaction_type =
            ClaimedType(raw_tx, raw_tx.category = "internal")

\* The records appended to the batch in this step.
AppendedRecords(old, new) == SubSeq(new, Len(old) + 1, Len(new))

\* C17, as claimed: in a poll_transactions run every record that comes from
\* the ERC-20, ERC-721 or ERC-1155 category fetch gets the transaction_type
\* of its category, whatever its input and to fields hold.
C17_CategoryGivesType ==
    [][(pc = "fetch" /\ Categories[cat] \in {"erc20", "erc721", "erc1155"}) =>
          \A k \in 1..Len(AppendedRecords(all_transactions, all_transactions')) :
              AppendedRecords(all_transactions, all_transactions')[k].transaction_type
                  = CategoryType(Categories[cat])]_vars

\* A record of the internal category has been normalized, on either path.
InternalNormalized ==
    /\ pc \in {"parsed", "processed"}
    /\ raw_tx.category = "internal"
    /\ parsed_tx.raises = "none"

\* C18, as claimed: every canonical record made of an internal transaction
\* has gas_fee_eth '0' whatever its gasUsed is, both from the poller's
\* parse_transaction with internal=True and from the tracker's
\* _process_transaction_batch with type 'Internal Transfer'.
C18_InternalGasFeeZero ==
    InternalNormalized => parsed_tx.record.gas_fee_eth = Zero

(* ================= properties of the run state and of run ============== *)

\* A poll_transactions call is under way.
InCall == pc \in {"fetch", "process", "sleep", "except", "finally"}

\* C19, as claimed: every poll_transactions call starts by resetting the
\* whole run state (total_transactions, total_chunks_processed, start_time,
\* last_processed_time), so that the progress and summary logging of a call
\* reads no value an earlier call on the same poller left: until the first
\* chunk of the call completes there is no last processed time, and a
\* progress summary is logged only about chunks of this call.
C19_RunStateReset ==
    /\ InCall => start_time = Now
    /\ (InCall /\ total_chunks_processed = 0) =>
            /\ total_transactions = 0
            /\ last_processed_time = NoTime
    /\ log_progress # "none" => total_chunks_processed > 0

\* A 0x-prefixed string of 40 hex digits.
IsAddress(a) == a.prefix /\ a.length = AddressLength /\ a.body = "hex"
\* A text that is a non-negative integer.
IsEpoch(arg) == arg.kind = "numeric" /\ arg.n >= 0

\* run was given an invalid address, an invalid epoch argument, or a start
\* epoch after the end epoch.
InvalidRun ==
    \/ ~IsAddress(address)
    \/ start_arg # Missing /\ ~IsEpoch(start_arg)
    \/ end_arg # Missing /\ ~IsEpoch(end_arg)
    \/ IsEpoch(start_arg) /\ IsEpoch(end_arg) /\ start_arg.n > end_arg.n

\* C20, as claimed: run, given an invalid address, an invalid epoch argument
\* or a start epoch after the end epoch, returns the empty string without
\* raising, without calling any provider fetch and without creating any
\* output file.
C20_InvalidRunRejected ==
    (pc # "idle" /\ InvalidRun) =>
        /\ pc = "returned"
        /\ run_result = ""
        /\ responses = <<>>
        /\ ~file.exists

\* run has returned the empty sentinel from its validation, before any fetch.
RejectedByValidation == pc = "returned" /\ run_result = "" /\ responses = <<>>

\* An epoch argument that was given and is not a non-negative integer.
BadEpoch(arg) == arg # Missing /\ ~IsEpoch(arg)

\* C21, as claimed: with a valid address and no start epoch after the end
\* epoch, run rejects (returns the empty sentinel before any fetch) exactly
\* when the start or the end argument is negative or not an integer; every
\* non-negative integer, 0 included, is accepted.
C21_NonNegativeEpochsAccepted ==
    (/\ pc # "idle"
     /\ IsAddress(address)
     /\ ~(IsEpoch(start_arg) /\ IsEpoch(end_arg) /\ start_arg.n > end_arg.n)) =>
        (RejectedByValidation <=> (BadEpoch(start_arg) \/ BadEpoch(end_arg)))

(* ============== properties of the tracker's process_transactions ======= *)

\* The hashes of a list of raw or canonical records, in order.
RawHashes(txs) == [k \in 1..Len(txs) |-> txs[k].hash]
RecordHashes(records) == [k \in 1..Len(records) |-> records[k].transaction_hash]

\* process_transactions has gone through its five categories.
TrackerFetched == pc = "export" /\ responses # <<>>

\* C22, as claimed: process_transactions returns exactly one canonical record
\* for every raw record the category fetches returned, in their order: a
\* record that cannot be processed is not dropped and does not cause other
\* records of its category to be dropped.
C22_TrackerOneRecordPerRaw ==
    TrackerFetched => RecordHashes(all_transactions) = RawHashes(Flatten(responses))

(* ================== properties of the chunk loop's order =============== *)

\* A call of poll_transactions starts in this step.
CallStarts == pc \in {"idle", "returned", "raised"} /\ pc' # pc

\* The call has been aborted by an exception that is on its way out or out.
Aborted == pending # "none" /\ pc \in {"except", "finally", "raised"}

\* One chunk at a time in the planner's order: the fetches of a chunk start
\* at the call's start (chunk 1) or after the delay of the chunk before, which
\* has been counted; a step makes at most one persistor call, in the loop
\* body after the fetches; the count goes up by one, when a chunk completes.
ChunksInSequence ==
    /\ [][(pc' = "fetch" /\ pc # "fetch") =>
            \/ CallStarts /\ i' = 1
            \/ pc = "sleep" /\ i' = i + 1 /\ total_chunks_processed = i]_vars
    /\ [][i' # i => (CallStarts /\ i' = 1) \/ (pc = "sleep" /\ i' = i + 1)]_vars
    /\ [][writes' # writes =>
            \/ CallStarts /\ writes' = <<>>
            \/ pc = "process" /\ Len(writes') = Len(writes) + 1]_vars
    /\ [][total_chunks_processed' # total_chunks_processed =>
            \/ CallStarts /\ total_chunks_processed' = 0
            \/ /\ pc = "process"
               /\ pc' = "sleep"
               /\ total_chunks_processed' = total_chunks_processed + 1
               /\ total_chunks_processed' = i]_vars
    /\ [](pc # "idle" => total_chunks_processed <= Len(chunks))
    /\ [](pc = "returned" => total_chunks_processed = Len(chunks))

\* C23 as claimed: chunks are processed one at a time in the planner's
\* order, total_chunks_processed goes up by exactly 1 per completed chunk,
\* never exceeds the number of planned chunks, equals it on normal return,
\* and equals k-1 when the run aborts inside chunk k.
C23_Original ==
    /\ ChunksInSequence
    /\ [](Aborted => total_chunks_processed = i - 1)

\* C23 as amended: the same, except that total_chunks_processed is k-1 when
\* the run aborts in the fetches or in the write of chunk k and k when it
\* aborts in the delay that follows chunk k's write (Ctrl-C during
\* time.sleep), because the chunk is counted before the delay.
C23_SequentialChunks ==
    /\ ChunksInSequence
    /\ [][(pending = "none" /\ pending' # "none") =>
            total_chunks_processed' = (IF pc = "sleep" THEN i ELSE i - 1)]_vars
    /\ [][(pending # "none" /\ pc \in {"except", "finally"}) =>
            UNCHANGED <<total_chunks_processed, i>>]_vars
    /\ [](Aborted => total_chunks_processed \in {i - 1, i})

\* A run was interrupted in the delay after its second chunk, which had
\* written, and has left poll_transactions with both chunks counted.
C23_Witness ==
    /\ pc = "raised"
    /\ pending = "KeyboardInterrupt"
    /\ i = 2
    /\ total_chunks_processed = 2
    /\ Len(chunks) >= 3
    /\ writes # <<>>

(* =================== properties of the batch's order =================== *)

\* The batch has been sorted and handed to the persistor.
Sorted == pc = "sorted"

\* The timestamp of the raw record a canonical record was made from.
StampOf(rec) == responses[1][rec.transaction_hash].timeStamp

\* C24, as claimed: the batch handed to the persistor is sorted by date_time
\* in descending order (each record's date_time is >= that of the record
\* after it), and for records with valid epoch timestamps this is
\* non-increasing chronological order, whatever order they were returned in.
C24_BatchSortedDescending ==
    Sorted =>
        /\ file.exists => file.rows = ToRows(all_transactions)
        /\ \A k \in 1..(Len(all_transactions) - 1) :
              LET this == all_transactions[k]
                  next == all_transactions[k + 1]
              IN  /\ DateGeq(this.date_time, next.date_time)
                  /\ (StampOf(this).kind = "numeric" /\ StampOf(next).kind = "numeric") =>
                          StampOf(this).n >= StampOf(next).n

(* ================= properties of what a run leaves behind ============== *)

\* How many rows of the destination carry the given transaction hash.
RowsOf(hash) ==
    Cardinality({k \in 1..Len(file.rows) : file.rows[k].transaction_hash = hash})

\* The provider's records with a timestamp in [start_epoch, end_epoch].
InRange(tx) == start_epoch <= tx.timeStamp.n /\ tx.timeStamp.n <= end_epoch

\* C25, as claimed: no on-chain record is persisted twice in one
\* poll_transactions run: a record whose timestamp lies in
\* [start_epoch, end_epoch] is returned for exactly one chunk, also when its
\* timestamp equals an interior chunk boundary, so that the destination
\* holds it at most once and total_transactions counts it at most once.
C25_NoRecordTwice ==
    pc # "idle" =>
        /\ \A k \in 1..Len(Chain) : RowsOf(Chain[k].hash) <= 1
        /\ total_transactions <=
              Cardinality({k \in 1..Len(Chain) : InRange(Chain[k])})

(* ============= properties of appends from two processes ================ *)

\* Both append_transactions calls have returned.
BothReturned == \A p \in Appenders : appenders[p].pc = "returned"

\* Every record of appender p's batch is a row of the destination, once.
RowsKept(p) ==
    \A k \in 1..Len(appenders[p].transactions) : RowsOf(OwnHash(p, k)) = 1
\* No record of appender p's batch is a row of the destination.
RowsLost(p) ==
    \A k \in 1..Len(appenders[p].transactions) : RowsOf(OwnHash(p, k)) = 0

\* Appender p rewrote the file after appender q did.
WroteAfter(p, q) ==
    /\ appenders[p].returns = "True"
    /\ appenders[q].returns = "True"
    /\ appenders[q].wrote_at < appenders[p].wrote_at
\* ... from rows it had read before q's rewrite.
ReadBefore(p, q) == appenders[p].read_at < appenders[q].wrote_at

\* C26: append_transactions reads the existing rows and later rewrites the
\* whole file, with no lock.  When two calls on one destination have both
\* returned True, the rows of the later writer are in the destination, and
\* the rows of the earlier writer are lost exactly when the later writer had
\* read the destination before the earlier one rewrote it; when the calls
\* follow one another, as the writes of a single run do, no row is lost.
C26_InterleavedAppendLosesRows ==
    BothReturned =>
        \A p \in Appenders : \A q \in Appenders \ {p} :
            /\ (appenders[p].returns = "True" /\ appenders[q].returns = "False") =>
                    (RowsKept(p) /\ RowsLost(q))
            /\ WroteAfter(p, q) =>
                    /\ RowsKept(p)
                    /\ ReadBefore(p, q) => RowsLost(q)
                    /\ ~ReadBefore(p, q) => RowsKept(q)

\* Both calls returned True, each had read the absent destination before
\* the other wrote, and the rows of the first writer are gone.
C26_Witness ==
    /\ BothReturned
    /\ WroteAfter(2, 1)
    /\ ReadBefore(2, 1)
    /\ RowsLost(1)
    /\ RowsKept(2)
    /\ Len(file.rows) = Len(appenders[2].transactions)

(* ============ properties of append on an absent destination ============ *)

\* append_transactions was called with a non-empty batch on a destination
\* that did not exist, and has returned.
AppendedToAbsent ==
    /\ pc = "appended"
    /\ sink_call.op = "append"
    /\ ~file_before.exists
    /\ sink_call.transactions # <<>>

\* C27: append_transactions called with a non-empty batch on a destination
\* that does not exist yet returns True and leaves the destination
\* persist_transactions would have written for the same batch: same header,
\* same rows, same order.
C27_AppendOnAbsentCreates ==
    AppendedToAbsent =>
        /\ sink_call.returns = "True"
        /\ file = PersistCall(file_before, sink_call.transactions).file
        /\ file.header = Header
        /\ file.rows = ToRows(sink_call.transactions)

\* A batch of two records was appended to a destination that did not exist.
C27_Witness ==
    /\ AppendedToAbsent
    /\ Len(sink_call.transactions) = 2
    /\ sink_call.transactions[1] # sink_call.transactions[2]
    /\ file.exists
    /\ Len(file.rows) = 2

\* The call has returned normally after fetching at least one record.
ReturnedWithRecords == pc = "returned" /\ total_transactions > 0

\* The row is the row of a record the provider holds in [start_epoch, end_epoch].
RowOfThisRun(row) ==
    \E k \in 1..Len(Chain) : row.transaction_hash = Chain[k].hash /\ InRange(Chain[k])

\* C28, as claimed: after a poll_transactions run that returns normally and
\* fetched at least one record, the destination holds exactly the records
\* fetched during this run and nothing else, whatever it held before the
\* run, also when the first chunk of the run yields no records: it has one
\* row per record fetched, and every row is a record of this run.
C28_DestinationHoldsThisRun ==
    ReturnedWithRecords =>
        /\ file.exists
        /\ Len(file.rows) = total_transactions
        /\ \A k \in 1..Len(file.rows) : RowOfThisRun(file.rows[k])

\* The rows the persistor call of this step put into the destination.
RowsWritten ==
    IF writes' = writes \/ writes'[Len(writes')].result # "written" THEN 0
    ELSE IF writes'[Len(writes')].op = "persist" THEN Len(file'.rows)
    ELSE Len(file'.rows) - Len(file.rows)

\* C29, as claimed: total_transactions is the number of data rows this run
\* has actually written to the destination: it starts at 0 with the call and
\* grows, in the step of a chunk's write, by the number of rows that write
\* put into the destination, so only when the persist or append succeeded.
C29_CountsRowsWritten ==
    [][total_transactions' # total_transactions =>
          \/ CallStarts /\ total_transactions' = 0
          \/ /\ writes' # writes
             /\ writes'[Len(writes')].result = "written"
             /\ total_transactions' = total_transactions + RowsWritten]_vars

(* ================= properties of the planner's termination ============= *)

\* A turn of the planner's while loop is taken in this step.
LoopTurn == pc = "planning" /\ pc' = "planning" /\ chunks' # chunks

\* C30, as claimed: a poller never reaches chunk planning with
\* chunk_duration_seconds <= 0; every turn of the loop of
\* _get_chunk_boundaries strictly decreases current_end towards start_epoch,
\* so that the call returns; and it returns the empty list when
\* start_epoch > end_epoch.
C30_PlannerTerminates ==
    /\ [](pc # "idle" => chunk_duration_seconds > 0)
    /\ [][LoopTurn => (current_end' < current_end /\ current_end' >= start_epoch)]_vars
    /\ (pc = "planning") ~> (pc = "planned")
    /\ []((pc = "planned" /\ start_epoch > end_epoch) => chunks = <<>>)

====
